---- MODULE Spec2Model ----
(***************************************************************************)
(* The wizard run loop (Wizard.executionLoop, executeStep,                 *)
(* handleFlowControlSignal, executeParallelSteps) together with the bungee *)
(* fan-out executor (BungeeExecutor) of swizzy-kit.                        *)
(*                                                                         *)
(* The registered workflow is an input: either <<A, W>>, where the         *)
(* sequential step "A" is an anchor whose update may launch a bungee plan  *)
(* and "W" is a sequential step and the destination of every worker, or    *)
(* <<B, G>>, where "B" is a sequential step and "G" is the parallel group  *)
(* of the steps "P" and "Q".                                               *)
(* What a step's user code does (which signal its update returns, whether  *)
(* it throws) is a nondeterministic choice at every execution.             *)
(***************************************************************************)
EXTENDS Naturals, Integers, Sequences, FiniteSets, TLC

\* ---------------------------------------------------------------- bounds
\* destinations per plan: 1..MaxDest
MaxDest == 3
\* bungee plans launched in one run
MaxPlans == 1
\* options a plan sets away from the builder's defaults
MaxOptions == 1
\* configured maxRetries ranges over 0..MaxRetriesBound
MaxRetriesBound == 1
\* executions counted per sequential step
MaxAttempts == MaxRetriesBound + 2
\* fields of a response text
MaxFields == 2
\* content characters of a field
MaxContent == 2
\* slots of a workflow whose registration order is an input
MaxSlots == 3

\* ---------------------------------------------------------------- steps
SeqSteps == {"A", "W", "B"}
ParSteps == {"P", "Q"}
StepIds == SeqSteps \cup ParSteps
ParallelMembers == <<"P", "Q">>
AnchorId == "A"
WorkerTarget == "W"     \* destination.targetId of every destination
CountedSteps == {"B"}   \* the steps whose executions are counted
\* the workflows that are run: this.steps after registration, "G" standing
\* for the slot of the parallel group
Workflows == {<<"A", "W">>, <<"B", "G">>}
\* addStep / addParallelSteps called in any order, each slot registered once:
\* the workflows of one to MaxSlots slots
Slots == {"A", "W", "B", "G"}
OrderedWorkflows ==
  {wf \in UNION {[1..n -> Slots] : n \in 1..MaxSlots} :
     \A j, k \in 1..Len(wf) : j # k => wf[j] # wf[k]}

\* ---------------------------------------------------------------- signals
NEXT == "NEXT"
STOP == "STOP"
RETRY == "RETRY"
WAIT == "WAIT"
JUMP == "JUMP"          \* { type: 'BUNGEE_JUMP', plan }
OTHERSIG == "OTHER"     \* undefined or an unrecognised string
GotoSignals == {"GOTO A", "GOTO B", "GOTO W"}
IsGoto(sig) == sig \in GotoSignals
\* signal.substring(5)
GotoTarget(sig) ==
  CASE sig = "GOTO A" -> "A"
    [] sig = "GOTO B" -> "B"
    [] OTHER -> "W"

\* what an update function run by the main loop can return
UpdateSignals == {NEXT, STOP, RETRY, WAIT, OTHERSIG} \cup GotoSignals
\* what a parallel member's update can return (a jump it returns is a value only)
MemberSignals == {NEXT, STOP, RETRY, WAIT, JUMP, OTHERSIG, "GOTO A", "GOTO B"}
\* what the anchor's update can return when it is re-executed on reentry
ReentrySignals == {NEXT, STOP, JUMP, "GOTO W", "GOTO B"}
\* what a worker's update can return: every worker action yields STOP
WorkerSignals == {STOP}

VARIABLES
  steps,             \* Wizard.steps
  maxRetries,        \* Wizard.maxRetries
  planCfg,           \* the plan the anchor's update builds
  currentStepIndex,  \* Wizard.currentStepIndex
  isRunning,         \* Wizard.isRunning
  pc,                \* position of the executionLoop coroutine
  retryCount,        \* workflowContext[<id>_retryCount], 0 when absent
  stepError,         \* workflowContext[<id>_error] present
  bungeeError,       \* workflowContext.bungee_error present
  parSignals,        \* signals of the members of the running parallel group
  pendingReentry,    \* BungeeExecutor.pendingReentry, in insertion order
  reentryQueue,      \* anchorsToRetrigger still to be processed
  nPlans,            \* plans created so far; the newest is the one executing
  planStatus,        \* per plan: "none", "executing", "returned", "threw"
  wState,            \* per plan and destination: state of the worker
  bungeeWorkers,     \* BungeeExecutor.bungeeWorkers: registered workers per plan
  launchIndex,       \* i of the launch loop in executeBungeePlan
  activeWorkers,     \* activeWorkers of executeBungeePlan
  raceResult,        \* outcome of the pending Promise.race
  attempts,          \* executeStep invocations per counted step
  alwaysThrew,       \* every execution of the step so far has thrown
  updateCalls,       \* invocations of the update function per counted step
  stopYielded,       \* a sequential step or a group has yielded STOP
  userErrorThrown,   \* a worker's own code has thrown an error
  lastCall,          \* the user code the last transition ran
  workerWrites,      \* the worker step's update calls actions.updateContext
  targetKind,        \* the class of the worker target step, when it is tracked
  silentErrors,      \* user code may throw an error whose message is empty
  workflowContext,   \* ContextManager.workflowContext: the keys user code writes
  launches,          \* launchBungeeWorker calls per plan and destination
  pText,             \* the response text the model streams
  pFed,              \* how much of it has been pushed to the streaming parser
  pState,            \* the streaming parser's closure variables
  pRet,              \* what the last push returned
  pWhole,            \* what parseXmlToJson returned for the text
  pMidMarker,        \* a chunk boundary has fallen inside a marker
  isPaused,          \* Wizard.isPaused
  isStepMode,        \* Wizard.isStepMode
  pauseResolver,     \* VisualizationManager.pauseResolver: whose resolve it holds
  userOverrideData,  \* Wizard.userOverrideData is set
  runPromise,        \* the promise run() returned
  alwaysInvalid      \* every execution of the step so far has failed validation

vars == <<steps, maxRetries, planCfg, currentStepIndex, isRunning, pc, retryCount,
          stepError, bungeeError, parSignals, pendingReentry, reentryQueue,
          nPlans, planStatus, wState, bungeeWorkers, launchIndex,
          activeWorkers, raceResult, attempts, alwaysThrew, updateCalls, stopYielded,
          userErrorThrown, lastCall, workerWrites, targetKind, silentErrors,
          workflowContext, launches,
          pText, pFed, pState, pRet, pWhole, pMidMarker,
          isPaused, isStepMode, pauseResolver, userOverrideData, runPromise,
          alwaysInvalid>>

parserVars == <<pText, pFed, pState, pRet, pWhole, pMidMarker>>
wizardVars == <<steps, maxRetries, planCfg, currentStepIndex, isRunning, pc,
                retryCount, stepError, bungeeError, parSignals, pendingReentry,
                reentryQueue, nPlans, planStatus, wState, bungeeWorkers,
                launchIndex, activeWorkers, raceResult, attempts, alwaysThrew, updateCalls,
                stopYielded, userErrorThrown, lastCall, workerWrites,
                targetKind, silentErrors, workflowContext, launches,
                isPaused, isStepMode, pauseResolver, userOverrideData, runPromise,
                alwaysInvalid>>

\* what is fixed once the workflow is built
cfgVars == <<steps, maxRetries, planCfg, workerWrites, targetKind, silentErrors>>
\* user keys of the context and the launch counts
userVars == <<workflowContext, launches>>

ctxVars == <<retryCount, stepError, bungeeError>>
planVars == <<nPlans, planStatus, wState, bungeeWorkers, launchIndex,
              activeWorkers, raceResult>>
ghostVars == <<attempts, alwaysThrew, alwaysInvalid, updateCalls, userErrorThrown>>
\* the pause / resume handshake with the visualization client
pauseVars == <<isPaused, isStepMode, pauseResolver, userOverrideData>>
\* what the caller of run() and the visualization client hold
hostVars == <<isPaused, isStepMode, pauseResolver, userOverrideData, runPromise>>

Plans == 1..MaxPlans
Dests == 0..(MaxDest - 1)
NoCall == [by |-> "none", step |-> "-", sig |-> "-", data |-> "-"]
\* user code of a step ran: who ran it, what it returned, and the result
\* argument its update function was given (when that is tracked)
CallWith(by, step, sig, data) == [by |-> by, step |-> step, sig |-> sig, data |-> data]
Call(by, step, sig) == CallWith(by, step, sig, "-")

\* BungeeBuilder: the plans an anchor can build
\* returnToAnchor and failWizardOnFailure stand for the tests the code makes,
\* plan.returnToAnchor !== false and plan.failWizardOnFailure !== false
AllPlanConfigs ==
  [n : 1..MaxDest, concurrency : 1..MaxDest, optimistic : BOOLEAN,
   returnToAnchor : BOOLEAN, failWizardOnFailure : BOOLEAN,
   onComplete : {"none", NEXT}]
OptionsSet(cfg) ==
  (IF cfg.optimistic THEN 1 ELSE 0) + (IF cfg.returnToAnchor THEN 0 ELSE 1)
  + (IF cfg.failWizardOnFailure THEN 0 ELSE 1)
  + (IF cfg.onComplete = "none" THEN 0 ELSE 1)
PlanConfigs == {cfg \in AllPlanConfigs : OptionsSet(cfg) <= MaxOptions}
\* the plan record of a workflow whose steps build no plan (never launched)
DefaultPlan ==
  [n |-> 1, concurrency |-> MaxDest, optimistic |-> FALSE,
   returnToAnchor |-> TRUE, failWizardOnFailure |-> TRUE, onComplete |-> "none"]

\* context keys written by user code: a key every worker writes, a key set
\* before the run, and result_<i> written by worker i
SharedKey == <<"shared", 0>>
OtherKey == <<"other", 0>>
ResultKey(i) == <<"result", i>>
\* the context handed to setContext before run()
InitialContext == (OtherKey :> 1)
\* the updates worker i passes to actions.updateContext
WorkerUpdates(i) == (SharedKey :> (i + 1)) @@ (ResultKey(i) :> 1)

\* a variant of the merge that keeps only the keys of the update
updateContext_Replace(context, updates) == updates

\* Wizard.updateContext / ContextManager.updateContext:
\* { ...this.workflowContext, ...updates }
updateContext(context, updates) ==
  [k \in (DOMAIN context) \cup (DOMAIN updates) |->
     IF k \in DOMAIN updates THEN updates[k] ELSE context[k]]

\* destination.config of destination i: it overrides the key set before the
\* run and adds a key of the destination's own
ItemKey == <<"item", 0>>
Telescope(i) == (OtherKey :> (i + 2)) @@ (ItemKey :> i)
\* the keys _telescope and _anchorId of a telescoped context
TelescopeKey == <<"_telescope", 0>>
AnchorIdKey == <<"_anchorId", 0>>
Bookkeeping == (TelescopeKey :> 1) @@ (AnchorIdKey :> 0)

\* a variant that builds the telescoped context in the shared object, as
\* Object.assign(baseContext, telescope, { _telescope, _anchorId }) would
createTelescopeContext_InPlace(base, tel) ==
  LET merged == updateContext(updateContext(base, tel), Bookkeeping) IN
  [base |-> merged, telescoped |-> merged]

\* createTelescopeContext: a new object
\*   { ...baseContext, ...telescope, _telescope: telescope, _anchorId: null }
\* is returned and baseContext is left as it is
createTelescopeContext(base, tel) ==
  [base |-> base,
   telescoped |-> updateContext(updateContext(base, tel), Bookkeeping)]

HasAnchor(wf) == \E k \in 1..Len(wf) : wf[k] = AnchorId

\* this.steps.length
NumSlots == Len(steps)
\* this.steps[i], 0-based as in the code
IsParallelSlot(i) == steps[i + 1] = "G"
SlotStep(i) == steps[i + 1]

\* Wizard.findStepIndex: stepIndexMap.get(id) ?? -1
findStepIndex(id) ==
  LET slot == IF id \in ParSteps THEN "G" ELSE id
      found == {k \in 1..Len(steps) : steps[k] = slot} IN
  IF found = {} THEN -1 ELSE (CHOOSE k \in found : TRUE) - 1

\* ----------------------------------------------------- the response parser
\* A response text is a sequence of pieces of markers and content characters:
\*   "RO1" "RO2"   the two halves of <response>
\*   "RC1" "RC2"   the two halves of </response>
\*   "<x" "<y"     the start of a field's open marker up to its name
\*   "ws" "wn"     tag-category="wizard" type="string" / type="number"
\*   ">"           the end of a field's open marker
\*   "1" " "       content: a digit and a blank
FieldNames == {"x", "y"}
NameToks == {"<x", "<y"}
TypeToks == {"ws", "wn"}
ContentToks == {"1", " "}
ClosingToks == {">", "RO2", "RC2"}
NameOf(tok) == IF tok = "<x" THEN "x" ELSE "y"
TypeOf(tok) == IF tok = "ws" THEN "string" ELSE "number"

\* s.slice(from - 1), positions being 1-based here
SliceFrom(s, from) == SubSeq(s, from, Len(s))

RECURSIVE TrimStart(_)
TrimStart(c) == IF c # <<>> /\ c[1] = " " THEN TrimStart(SliceFrom(c, 2)) ELSE c
RECURSIVE TrimEnd(_)
TrimEnd(c) ==
  IF c # <<>> /\ c[Len(c)] = " " THEN TrimEnd(SubSeq(c, 1, Len(c) - 1)) ELSE c
Trim(c) == TrimStart(TrimEnd(c))

\* parseNumber: Number(value) is NaN unless value is a numeral ("" gives 0)
IsNumeral(c) == \A k \in 1..Len(c) : c[k] = "1"
ThrownValue == <<"throw">>
parseNumber(c) ==
  IF ~IsNumeral(c) THEN ThrownValue
  ELSE IF c = <<>> THEN <<"number", "0">> ELSE <<"number">> \o c

\* parseValueByType(content, type)
parseValueByType(c, type) ==
  IF type = "string" THEN <<"string">> \o c ELSE parseNumber(c)

\* a result object: per field name whether it holds an array, and its values
\* (no value: the key is absent)
NoValue == [arr |-> FALSE, vals |-> <<>>]
EmptyResult == [n \in FieldNames |-> NoValue]

\* buffer.indexOf of a two-piece marker, 1-based; 0 when not found
IndexOfPair(buf, a, b) ==
  LET found == {k \in 1..(Len(buf) - 1) : buf[k] = a /\ buf[k + 1] = b} IN
  IF found = {} THEN 0 ELSE CHOOSE k \in found : \A j \in found : k <= j

\* the places where /<\w+\s+[^>]*tag-category=["']wizard["'][^>]*>/ matches
TagMatches(buf) ==
  {k \in 1..(Len(buf) - 2) :
     buf[k] \in NameToks /\ buf[k + 1] \in TypeToks /\ buf[k + 2] = ">"}
\* index of the first match, 1-based; 0 when there is none
FirstTag(buf) ==
  IF TagMatches(buf) = {} THEN 0
  ELSE CHOOSE k \in TagMatches(buf) : \A j \in TagMatches(buf) : k <= j

\* /<\w+\s+[^>]*tag-category=["']wizard["'][^>]*$/ matches
PartialTagAtEnd(buf) ==
  \E k \in 1..(Len(buf) - 1) :
    /\ buf[k] \in NameToks /\ buf[k + 1] \in TypeToks
    /\ \A j \in (k + 2)..Len(buf) : buf[j] \notin ClosingToks

\* the value of a property that the object does not have
Undefined == 0 - 1

\* a variant in which the match carries the index of its first occurrence
TagMatchIndex_First(buf) == FirstTag(buf) - 1

\* tagMatch.index for tagMatch = buffer.match(Wizard.WIZARD_TAG_PATTERN): the
\* pattern has the g flag, so match() returns the array of the matched
\* strings, which has no index property
TagMatchIndex(buf) == Undefined

\* the state of one streaming parser
NewParser ==
  [buffer |-> <<>>, inResponse |-> FALSE, result |-> EmptyResult,
   hasField |-> FALSE, name |-> "", type |-> "", content |-> <<>>,
   parseErrors |-> 0]
NullReturn == [kind |-> "null", result |-> EmptyResult]
NoReturn == [kind |-> "none", result |-> EmptyResult]
Returned(st, kind) == [state |-> st, ret |-> [kind |-> kind, result |-> st.result]]

\* the catch block of push
Caught(st) ==
  LET n == st.parseErrors + 1
      k == FirstTag(st.buffer) IN
  IF n > 3 /\ k > 1
    THEN Returned([st EXCEPT !.parseErrors = 0, !.buffer = SliceFrom(st.buffer, k)],
                  "partial")
    ELSE Returned([st EXCEPT !.parseErrors = IF n > 3 THEN 4 ELSE n], "partial")

\* the end of push after the while loop
AfterLoop(st, processed) ==
  Returned(IF processed THEN [st EXCEPT !.parseErrors = 0] ELSE st, "partial")

\* the while loop of push
RECURSIVE PushLoop(_, _)
PushLoop(st, processed) ==
  LET buf == st.buffer IN
  IF Len(buf) = 0 THEN AfterLoop(st, processed)
  ELSE IF st.hasField THEN
    LET nextTag == FirstTag(buf)
        responseEnd == IndexOfPair(buf, "RC1", "RC2")
        upTo == IF nextTag # 0 THEN nextTag ELSE responseEnd
        content == st.content \o SubSeq(buf, 1, upTo - 1)
        value == parseValueByType(Trim(content), st.type)
        stored == [st.result EXCEPT ![st.name] = [arr |-> FALSE, vals |-> <<value>>]]
    IN
    IF nextTag # 0 THEN
      IF value = ThrownValue THEN Caught([st EXCEPT !.content = content])
      ELSE PushLoop([st EXCEPT !.result = stored, !.hasField = FALSE,
                               !.name = "", !.type = "", !.content = <<>>,
                               !.buffer = SliceFrom(buf, nextTag)], TRUE)
    ELSE IF responseEnd # 0 THEN
      IF value = ThrownValue THEN Caught([st EXCEPT !.content = content])
      ELSE Returned([st EXCEPT !.result = stored, !.content = content], "done")
    ELSE IF PartialTagAtEnd(buf) THEN AfterLoop(st, processed)
    ELSE PushLoop([st EXCEPT !.content = st.content \o buf, !.buffer = <<>>], TRUE)
  ELSE
    LET found == TagMatches(buf) # {}
        index == TagMatchIndex(buf) IN
    IF found /\ index = 0 THEN
      PushLoop([st EXCEPT !.hasField = TRUE, !.name = NameOf(buf[1]),
                          !.type = TypeOf(buf[2]), !.content = <<>>,
                          !.buffer = SliceFrom(buf, 4)], TRUE)
    ELSE IF found /\ index # Undefined /\ index > 0 THEN
      IF PartialTagAtEnd(buf) THEN AfterLoop(st, processed)
      ELSE PushLoop([st EXCEPT !.buffer = SliceFrom(buf, index + 1)], processed)
    ELSE IF IndexOfPair(buf, "RC1", "RC2") # 0 THEN Returned(st, "done")
    ELSE AfterLoop(st, processed)

\* parser.push(chunk)
push(st, chunk) ==
  LET buf == st.buffer \o chunk
      responseStart == IndexOfPair(buf, "RO1", "RO2")
      entered ==
        IF st.inResponse THEN [st EXCEPT !.buffer = buf]
        ELSE IF responseStart # 0
          THEN [st EXCEPT !.inResponse = TRUE, !.buffer = SliceFrom(buf, responseStart + 2)]
          ELSE [st EXCEPT !.buffer = buf]
  IN
  IF ~entered.inResponse THEN [state |-> entered, ret |-> NullReturn]
  ELSE PushLoop(entered, FALSE)

\* result[tagName] = value, collapsing a repeated name into an array
AddValue(result, name, value) ==
  [result EXCEPT ![name] =
     IF @.vals = <<>> THEN [arr |-> FALSE, vals |-> <<value>>]
     ELSE [arr |-> TRUE, vals |-> Append(@.vals, value)]]

\* what a non-streaming parse gives: a result, or an error thrown
Parsed(result) == [called |-> TRUE, ok |-> TRUE, result |-> result]
ParseThrew == [called |-> TRUE, ok |-> FALSE, result |-> EmptyResult]
NotParsed == [called |-> FALSE, ok |-> FALSE, result |-> EmptyResult]

\* the loop of parseXmlElementWithTagCategory over the matches at or after
\* position from (the closing tag </name> it strips is not in the alphabet)
RECURSIVE ParseFields(_, _, _)
ParseFields(xml, from, result) ==
  LET later == {k \in TagMatches(xml) : k >= from} IN
  IF later = {} THEN Parsed(result)
  ELSE
    LET cur == CHOOSE k \in later : \A j \in later : k <= j
        after == {k \in later : k > cur}
        close == IndexOfPair(SliceFrom(xml, cur + 3), "RC1", "RC2")
        contentEnd ==
          IF after # {} THEN (CHOOSE k \in after : \A j \in after : k <= j) - 1
          ELSE IF close # 0 THEN cur + 2 + close - 1 ELSE Len(xml)
        trimmed == TrimEnd(SubSeq(xml, cur + 3, contentEnd))
        type == TypeOf(xml[cur + 1])
        value == IF type = "string" THEN <<"string">> \o trimmed
                 ELSE parseNumber(Trim(trimmed))
    IN
    IF value = ThrownValue THEN ParseThrew
    ELSE ParseFields(xml, cur + 1, AddValue(result, NameOf(xml[cur]), value))

parseXmlElementWithTagCategory(xml) == ParseFields(xml, 1, EmptyResult)

\* parseXmlToJson: /<response\s*>([\s\S]*?)(?:<\/response\s*>|$)/i
parseXmlToJson(xml) ==
  LET open == IndexOfPair(xml, "RO1", "RO2")
      rest == SliceFrom(xml, open + 2)
      close == IndexOfPair(rest, "RC1", "RC2")
      inner == IF close # 0 THEN SubSeq(rest, 1, close - 1) ELSE rest
  IN
  IF open = 0 THEN ParseThrew ELSE parseXmlElementWithTagCategory(inner)

\* the valid serialized responses: <response>, at most MaxFields fields each
\* with at most MaxContent content characters, </response>
Contents == UNION {[1..k -> ContentToks] : k \in 0..MaxContent}
FieldText(n, t, c) == <<n, t, ">">> \o c
\* a number field holds a numeral, possibly with blanks around it
ValidFields ==
  {FieldText(f[1], f[2], f[3]) :
     f \in {g \in NameToks \X TypeToks \X Contents :
              g[2] = "wn" => (Trim(g[3]) # <<>> /\ IsNumeral(Trim(g[3])))}}
RECURSIVE Flatten(_)
Flatten(fs) == IF fs = <<>> THEN <<>> ELSE fs[1] \o Flatten(SliceFrom(fs, 2))
ValidTexts ==
  {<<"RO1", "RO2">> \o Flatten(fs) \o <<"RC1", "RC2">> :
     fs \in UNION {[1..k -> ValidFields] : k \in 0..MaxFields}}

\* responses some of whose number fields hold non-numeric content: a letter
\* stands for any character that makes Number(value) NaN
LetterTok == "a"
BadContents ==
  {c \in UNION {[1..k -> ContentToks \cup {LetterTok}] : k \in 1..MaxContent} :
     \E j \in 1..Len(c) : c[j] = LetterTok}
BadFields == {FieldText(f[1], "wn", f[2]) : f \in NameToks \X BadContents}
MalformedTexts ==
  {<<"RO1", "RO2">> \o Flatten(fs) \o <<"RC1", "RC2">> :
     fs \in UNION {[1..k -> ValidFields \cup BadFields] : k \in 0..MaxFields}}

\* a chunk boundary at offset k of the text falls inside a marker
MidMarker(text, k) ==
  k \in 1..(Len(text) - 1) /\ text[k] \in {"RO1", "RC1"} \cup NameToks \cup TypeToks

\* no response is being parsed
ParserInit(texts) ==
  /\ pText \in texts
  /\ pFed = 0
  /\ pState = NewParser
  /\ pRet = NoReturn
  /\ pWhole = NotParsed
  /\ pMidMarker = FALSE

\* the state of the wizard after construction, for the given workflows, retry
\* budgets and kinds of worker step
WizardInitErrors(workflows, budgets, writes, counted, kinds, silent) ==
  /\ steps \in workflows
  /\ targetKind \in kinds
  /\ silentErrors \in silent
  /\ maxRetries \in budgets
  /\ planCfg \in (IF HasAnchor(steps) THEN PlanConfigs ELSE {DefaultPlan})
  /\ currentStepIndex = 0
  /\ isRunning = FALSE
  /\ pc = "idle"
  /\ retryCount = [s \in StepIds |-> 0]
  /\ stepError = [s \in StepIds |-> FALSE]
  /\ bungeeError = FALSE
  /\ parSignals = [m \in ParSteps |-> "PENDING"]
  /\ pendingReentry = <<>>
  /\ reentryQueue = <<>>
  /\ nPlans = 0
  /\ planStatus = [p \in Plans |-> "none"]
  /\ wState = [p \in Plans |-> [i \in Dests |-> "unlaunched"]]
  /\ bungeeWorkers = [p \in Plans |-> {}]
  /\ launchIndex = 0
  /\ activeWorkers = {}
  /\ raceResult = "none"
  /\ attempts = [s \in counted |-> 0]
  /\ alwaysThrew = [s \in counted |-> TRUE]
  /\ updateCalls = [s \in counted |-> 0]
  /\ alwaysInvalid = [s \in counted |-> TRUE]
  /\ isPaused = FALSE
  /\ isStepMode = FALSE
  /\ pauseResolver = "none"
  /\ userOverrideData = FALSE
  /\ runPromise = "none"
  /\ stopYielded = FALSE
  /\ userErrorThrown = FALSE
  /\ lastCall = NoCall
  /\ workerWrites \in writes
  /\ workflowContext = InitialContext
  /\ launches = [p \in Plans |-> [i \in Dests |-> 0]]

\* every error thrown carries a message
WizardInitKinds(workflows, budgets, writes, counted, kinds) ==
  WizardInitErrors(workflows, budgets, writes, counted, kinds, {FALSE})

\* the class of the worker target step is not tracked
WizardInitCounting(workflows, budgets, writes, counted) ==
  WizardInitKinds(workflows, budgets, writes, counted, {"opaque"})

WizardInit(workflows, budgets, writes) ==
  WizardInitCounting(workflows, budgets, writes, CountedSteps)

\* the state after construction; no response text is being parsed
InitWith(workflows, budgets, writes) ==
  WizardInit(workflows, budgets, writes) /\ ParserInit({<<>>})

\* workflows whose worker step writes nothing to the shared context
Init == InitWith(Workflows, 0..MaxRetriesBound, {FALSE})


\* ------------------------------------------------------------ executeStep
\* a variant that allows one more recorded failure
RetryBudgetExceeded_OneMore(count) == count > maxRetries + 1

\* catch block of executeStep: currentRetryCount > this.maxRetries
RetryBudgetExceeded(count) == count > maxRetries

\* The kinds of outcome of one executeStep(step):
\*   "update"     step.update ran and returned a signal
\*   "validation" generateStepData returned the __validationFailed sentinel
\*   "guarded"    beforeRun, generateStepData or update threw (inside try)
\*   "unguarded"  step.getContext threw (before the try)
OutcomeKinds == {"update", "validation", "guarded", "unguarded"}

\* the ways the repair of invalid data fails in generateStepData:
\*   "invalid"      the repaired data fails step.validate as well
\*   "repairError"  repairSchemaData raises (model call, parseXmlToJson)
RepairFailures == {"invalid", "repairError"}

\* a variant that lets an error raised during the repair escape
generateStepData_Raising(failure) ==
  IF failure = "repairError" THEN "throw" ELSE "sentinel"

\* generateStepData when validation and repair both fail: the inner catch
\* returns { __validationFailed: true, ... } whatever was thrown
generateStepData(failure) == "sentinel"

\* the step is a ComputeStep (isComputeStep, validate accepts anything)
IsCompute(s) == s = WorkerTarget /\ targetKind = "compute"

\* the stepData executeStep hands to step.update:
\*   isComputeStep ? null : await generateStepData(step, stepContext)
\* (a sentinel never gets there: it is turned into RETRY before)
executeStepData(s) ==
  IF s # WorkerTarget \/ targetKind = "opaque" THEN "-"
  ELSE IF IsCompute(s) THEN "null" ELSE "generated"

\* the stepData executeWorkerStep hands to step.update: whatever
\* generateStepData returned, for every class of step
executeWorkerStepData(gen) == gen

\* what generateStepData can return for the worker target: validated data
\* or, for a step with a schema, the __validationFailed sentinel
GeneratedData ==
  CASE targetKind = "opaque" -> {"-"}
    [] targetKind = "compute" -> {"generated"}
    [] OTHER -> {"generated", "sentinel"}

\* the outcomes executeStep(s) can meet: a ComputeStep generates nothing,
\* so nothing is validated or repaired
StepOutcomes(s) ==
  {"update", "guarded", "unguarded"}
    \cup (IF IsCompute(s) THEN {} ELSE RepairFailures)
    \cup (IF silentErrors THEN {"silent"} ELSE {})

\* the outcomes met before executeStep tests this.isPaused: getContext,
\* beforeRun or generateStepData threw
PrePauseOutcomes(s) == StepOutcomes(s) \ ({"update"} \cup RepairFailures)
\* the outcomes met after that test: the sentinel is turned into RETRY, the
\* update (of the generated data or of the user's override) returns or throws
PostPauseOutcomes(s) == StepOutcomes(s) \ {"unguarded"}
\* the outcomes of an executeStep(s) that does not wait for a resume
DirectOutcomes(s) == IF isPaused THEN PrePauseOutcomes(s) ELSE StepOutcomes(s)

\* error.message of the error the catch block records is truthy; "silent"
\* is a guarded throw of an error without a message (throw new Error())
MessageTruthy(oc) == oc # "silent"

\* what one executeStep(step) meets: an outcome kind, or a failed repair
Outcomes == {"update", "guarded", "unguarded"} \cup RepairFailures
\* a variant in which a failed validation is handled as a thrown error
ExecKind_Budgeted(oc) ==
  IF oc \in RepairFailures \cup {"silent"} THEN "guarded" ELSE oc

ExecKind(oc) ==
  CASE oc \in RepairFailures ->
         (IF generateStepData(oc) = "sentinel" THEN "validation" ELSE "guarded")
    [] oc = "silent" -> "guarded"
    [] OTHER -> oc

\* the signal executeStep returns (none for "unguarded": the error escapes)
StepSignal(s, kind, sig) ==
  CASE kind = "update" -> sig
    [] kind = "validation" -> RETRY
    [] kind = "guarded" ->
         IF RetryBudgetExceeded(retryCount[s] + 1) THEN STOP ELSE RETRY
    [] OTHER -> "ESCAPED"

\* finalizeStepExecution / clearStepError, and the catch block's updateContext;
\* stepError[s] stands for a truthy <stepId>_error
StepContextEffect(s, kind, truthy) ==
  /\ UNCHANGED bungeeError
  /\ CASE kind = "update" /\ stepError[s] ->
            /\ stepError' = [stepError EXCEPT ![s] = FALSE]
            /\ retryCount' = [retryCount EXCEPT ![s] = 0]
       [] kind = "guarded" /\ ~RetryBudgetExceeded(retryCount[s] + 1) ->
            /\ stepError' = [stepError EXCEPT ![s] = truthy]
            /\ retryCount' = [retryCount EXCEPT ![s] = retryCount[s] + 1]
       [] OTHER -> UNCHANGED <<stepError, retryCount>>

\* one more executeStep(s) with the given outcome is counted
CountAttempt(s, kind) ==
  IF s \in DOMAIN attempts
    THEN /\ attempts' = [attempts EXCEPT ![s] = attempts[s] + 1]
         /\ alwaysThrew' = [alwaysThrew EXCEPT
                              ![s] = alwaysThrew[s] /\ kind \in {"guarded", "unguarded"}]
         /\ alwaysInvalid' = [alwaysInvalid EXCEPT
                                ![s] = alwaysInvalid[s] /\ kind = "validation"]
         /\ updateCalls' = [updateCalls EXCEPT
                              ![s] = IF kind = "update" THEN @ + 1 ELSE @]
         /\ UNCHANGED userErrorThrown
    ELSE UNCHANGED <<attempts, alwaysThrew, alwaysInvalid, updateCalls, userErrorThrown>>
MayAttempt(s) == s \in DOMAIN attempts => attempts[s] < MaxAttempts

\* what the transition ran, as lastCall records it
StepCall(by, s, oc, sig) ==
  CASE oc = "update" -> CallWith(by, s, sig, executeStepData(s))
    [] oc = "invalid" -> Call(by, s, "INVALID")
    [] oc = "repairError" -> Call(by, s, "REPAIR_ERROR")
    [] OTHER -> Call(by, s, "THROW")

\* ------------------------------------------------- handleFlowControlSignal
\* executeBungeePlan is entered: a new plan (fresh plan.id) starts launching
StartPlan ==
  /\ nPlans' = nPlans + 1
  /\ planStatus' = [planStatus EXCEPT ![nPlans + 1] = "executing"]
  /\ launchIndex' = 0
  /\ activeWorkers' = {}
  /\ raceResult' = "none"
  /\ UNCHANGED <<wState, bungeeWorkers>>

\* where the loop goes when handleFlowControlSignal returned false:
\* executeSequentialStep just returns, the group branch returns from the loop
AfterFalse(fromGroup) == IF fromGroup THEN "stopped" ELSE "afterSlot"

\* a variant that advances on a value that is no signal
FallThroughIndex_Advance(index) == index + 1

\* the default case of the switch for a value that is neither a GOTO string
\* nor a jump: no branch is taken and the index is left as it is
FallThroughIndex(index) == index

\* handleFlowControlSignal(signal) for every signal but a bungee jump
HandleSimpleSignal(sig, fromGroup) ==
  CASE sig = NEXT ->
         /\ currentStepIndex' = currentStepIndex + 1
         /\ pc' = "afterSlot"
         /\ UNCHANGED isRunning
    [] sig = STOP ->
         /\ isRunning' = FALSE
         /\ pc' = AfterFalse(fromGroup)
         /\ UNCHANGED currentStepIndex
    [] sig = RETRY ->
         /\ pc' = "afterSlot"
         /\ UNCHANGED <<currentStepIndex, isRunning>>
    [] sig = WAIT ->
         /\ pc' = "wait"
         /\ UNCHANGED <<currentStepIndex, isRunning>>
    [] IsGoto(sig) /\ findStepIndex(GotoTarget(sig)) # -1 ->
         /\ currentStepIndex' = findStepIndex(GotoTarget(sig))
         /\ pc' = "afterSlot"
         /\ UNCHANGED isRunning
    [] IsGoto(sig) /\ findStepIndex(GotoTarget(sig)) = -1 ->
         \* throw new Error('Unknown step ID for GOTO'): the loop's promise rejects
         /\ pc' = "crashed"
         /\ UNCHANGED <<currentStepIndex, isRunning>>
    [] OTHER ->
         /\ currentStepIndex' = FallThroughIndex(currentStepIndex)
         /\ pc' = "afterSlot"
         /\ UNCHANGED isRunning

handleFlowControlSignal(sig, fromGroup) ==
  IF sig = JUMP
    THEN /\ StartPlan
         /\ pc' = "launch"
         /\ UNCHANGED <<currentStepIndex, isRunning>>
    ELSE /\ HandleSimpleSignal(sig, fromGroup)
         /\ UNCHANGED planVars

\* ----------------------------------------------------------- the run loop
\* run() -> await initializeRun(), then executionLoop() is called and its
\* promise dropped: run() returns, which fulfils the promise it returned,
\* while the loop is at its first await
Run ==
  /\ pc = "idle"
  /\ currentStepIndex' = 0
  /\ isRunning' = TRUE
  /\ pc' = "loop"
  /\ runPromise' = "fulfilled"
  /\ lastCall' = NoCall
  /\ UNCHANGED <<parserVars, cfgVars, pauseVars, userVars, ctxVars, parSignals,
                 pendingReentry, reentryQueue, planVars, ghostVars, stopYielded>>

\* a variant of the while condition that is one slot short
LoopCondition_OneShort == currentStepIndex < NumSlots - 1 /\ isRunning

\* while (this.currentStepIndex < this.steps.length && this.isRunning)
LoopCondition == currentStepIndex < NumSlots /\ isRunning

\* the while condition fails: finalizeRun
FinalizeRun ==
  /\ pc = "loop"
  /\ ~LoopCondition
  /\ isRunning' = FALSE
  /\ pc' = "done"
  /\ lastCall' = NoCall
  /\ UNCHANGED <<parserVars, cfgVars, hostVars, userVars, currentStepIndex, ctxVars, parSignals,
                 pendingReentry, reentryQueue, planVars, ghostVars, stopYielded>>

\* signals the update of sequential step s may return
SeqUpdateSignals(s) ==
  UpdateSignals \cup (IF s = AnchorId /\ nPlans < MaxPlans THEN {JUMP} ELSE {})

\* executeStep(s) of executeSequentialStep settles with one of the outcomes,
\* then handleFlowControlSignal
SequentialStepSettles(s, outcomes) ==
  \E oc \in outcomes, sig \in SeqUpdateSignals(s) :
    LET kind == ExecKind(oc) IN
    /\ CountAttempt(s, kind)
    /\ lastCall' = StepCall("loop", s, oc, sig)
    /\ StepContextEffect(s, kind, MessageTruthy(oc))
    /\ IF kind = "unguarded"
         THEN /\ pc' = "crashed"
              /\ UNCHANGED <<currentStepIndex, isRunning, planVars, stopYielded>>
         ELSE /\ handleFlowControlSignal(StepSignal(s, kind, sig), FALSE)
              /\ stopYielded' = (stopYielded \/ StepSignal(s, kind, sig) = STOP)

\* executeSequentialStep(item): executeStep, then handleFlowControlSignal
ExecuteSequentialStep ==
  /\ pc = "loop"
  /\ LoopCondition
  /\ ~IsParallelSlot(currentStepIndex)
  /\ LET s == SlotStep(currentStepIndex) IN
     /\ MayAttempt(s)
     /\ SequentialStepSettles(s, DirectOutcomes(s))
  /\ UNCHANGED <<parserVars, cfgVars, hostVars, userVars, parSignals, pendingReentry, reentryQueue>>

\* case Wizard.WAIT: the 10 second sleep is over
WaitDone ==
  /\ pc = "wait"
  /\ currentStepIndex' = currentStepIndex + 1
  /\ pc' = "afterSlot"
  /\ lastCall' = NoCall
  /\ UNCHANGED <<parserVars, cfgVars, hostVars, userVars, isRunning, ctxVars, parSignals,
                 pendingReentry, reentryQueue, planVars, ghostVars, stopYielded>>


\* --------------------------------------------------- executeParallelSteps
\* the loop over the members' signals, from member k on
\* a variant that hands a member's jump or wait to the loop
ScanSignals_ActOnJump(sigs, k, nextSignal) ==
  IF \E j \in k..Len(sigs) : sigs[j] \in {JUMP, WAIT}
    THEN sigs[CHOOSE j \in k..Len(sigs) : sigs[j] \in {JUMP, WAIT}]
    ELSE nextSignal

RECURSIVE ScanSignals(_, _, _)
ScanSignals(sigs, k, nextSignal) ==
  IF k > Len(sigs) THEN nextSignal
  ELSE IF sigs[k] = STOP THEN STOP
  ELSE IF IsGoto(sigs[k]) THEN sigs[k]
  ELSE IF sigs[k] = RETRY THEN ScanSignals(sigs, k + 1, RETRY)
  ELSE ScanSignals(sigs, k + 1, nextSignal)

\* the signal executeParallelSteps returns for the members' signals
ParallelSignal(sigs) == ScanSignals(sigs, 1, NEXT)

GroupSignals == [k \in 1..Len(ParallelMembers) |-> parSignals[ParallelMembers[k]]]
\* a member's executeStep has not settled: it runs, waits for a resume, or
\* has been resumed and is about to continue
Unsettled == {"PENDING", "PAUSED", "RESUMED"}
GroupFinished == \A m \in ParSteps : parSignals[m] \notin Unsettled

\* parallelSteps.map(step => this.executeStep(step)): all members start
StartParallelSteps ==
  /\ pc = "loop"
  /\ LoopCondition
  /\ IsParallelSlot(currentStepIndex)
  /\ parSignals' = [m \in ParSteps |-> "PENDING"]
  /\ pc' = "par"
  /\ lastCall' = NoCall
  /\ UNCHANGED <<parserVars, cfgVars, hostVars, userVars, currentStepIndex, isRunning, ctxVars,
                 pendingReentry, reentryQueue, planVars, ghostVars, stopYielded>>

\* executeStep of member m settles with one of the outcomes
MemberSettles(m, outcomes) ==
  \E oc \in outcomes, sig \in MemberSignals :
    LET kind == ExecKind(oc) IN
    /\ CountAttempt(m, kind)
    /\ lastCall' = StepCall("group", m, oc, sig)
    /\ StepContextEffect(m, kind, MessageTruthy(oc))
    /\ IF kind = "unguarded"
         THEN /\ pc' = "crashed"       \* Promise.all(promises) rejects
              /\ parSignals' = [x \in ParSteps |-> "PENDING"]
         ELSE /\ parSignals' = [parSignals EXCEPT ![m] = StepSignal(m, kind, sig)]
              /\ UNCHANGED pc

\* executeStep of one member settles
MemberFinishes(m) ==
  /\ pc = "par"
  /\ parSignals[m] = "PENDING"
  /\ MayAttempt(m)
  /\ MemberSettles(m, DirectOutcomes(m))
  /\ UNCHANGED <<parserVars, cfgVars, hostVars, userVars, currentStepIndex, isRunning,
                 pendingReentry, reentryQueue, planVars, stopYielded>>

\* Promise.all(promises) resolved: the group's signal is computed and handled
GroupDone ==
  /\ pc = "par"
  /\ GroupFinished
  /\ handleFlowControlSignal(ParallelSignal(GroupSignals), TRUE)
  /\ stopYielded' = (stopYielded \/ ParallelSignal(GroupSignals) = STOP)
  /\ parSignals' = [m \in ParSteps |-> "PENDING"]   \* signals is a local
  /\ lastCall' = NoCall
  /\ UNCHANGED <<parserVars, cfgVars, hostVars, userVars, ctxVars, pendingReentry,
                 reentryQueue, ghostVars>>

\* ------------------------------------------------------- processReentries
\* a variant of the loop that never suspends after a slot
SuspendAfterSlot_Never == FALSE

\* executionLoop after a slot: if (this.isStepMode) { ... await waitForResume() }
SuspendAfterSlot == isStepMode

\* anchorsToRetrigger = Array.from(pendingReentry); pendingReentry.clear()
ProcessReentries ==
  /\ \/ pc = "afterSlot" /\ ~SuspendAfterSlot
     \/ pc = "resumed"
  /\ reentryQueue' = pendingReentry
  /\ pendingReentry' = <<>>
  /\ pc' = IF pendingReentry = <<>> THEN "loop" ELSE "reentry"
  /\ lastCall' = NoCall
  /\ UNCHANGED <<parserVars, cfgVars, hostVars, userVars, currentStepIndex, isRunning, ctxVars,
                 parSignals, planVars, ghostVars, stopYielded>>

\* executeStep(anchorStep) of retriggerAnchor settles with one of the
\* outcomes; the signal it returns is dropped
AnchorSettles(s, outcomes) ==
  \E oc \in outcomes, sig \in ReentrySignals :
    LET kind == ExecKind(oc) IN
    /\ CountAttempt(s, kind)
    /\ lastCall' = StepCall("reentry", s, oc, sig)
    /\ StepContextEffect(s, kind, MessageTruthy(oc))
    /\ IF kind = "unguarded"
         THEN /\ pc' = "crashed"
              /\ UNCHANGED reentryQueue
         ELSE /\ reentryQueue' = Tail(reentryQueue)
              /\ pc' = IF Tail(reentryQueue) = <<>> THEN "loop" ELSE "reentry"

\* retriggerAnchor(anchorId): executeStep(anchorStep), its signal is dropped
RetriggerAnchor ==
  /\ pc = "reentry"
  /\ reentryQueue # <<>>
  /\ LET s == Head(reentryQueue) IN
     /\ MayAttempt(s)
     /\ AnchorSettles(s, DirectOutcomes(s))
  /\ UNCHANGED <<parserVars, cfgVars, hostVars, userVars, currentStepIndex, isRunning, parSignals,
                 pendingReentry, planVars, stopYielded>>

\* --------------------------------------------------------- BungeeExecutor
CurPlan == nPlans
Settled == {"ok", "failed"}
Failed == {"failed"}
InFlight(p) == {i \in Dests : wState[p][i] = "running"}

Min(S) == CHOOSE x \in S : \A y \in S : x <= y

\* Promise.race(activeWorkers) at the time it is called: the first promise,
\* in insertion order, that is already settled decides; else it stays pending
RaceAtCall(p, active) ==
  LET settled == {j \in active : wState[p][j] \in Settled} IN
  IF settled = {} THEN "pending"
  ELSE IF wState[p][Min(settled)] = "ok" THEN "ok" ELSE "fail"

\* "Clean up completed workers": every promise but workerPromise is deleted
CleanUp(active, workerPromise) == {j \in active : j = workerPromise}

\* a variant of the loop test that stops one destination early
AfterLaunch_OneShort(k) ==
  IF k + 1 < planCfg.n THEN "launch"
  ELSE IF planCfg.optimistic THEN "complete" ELSE "all"

\* where executeBungeePlan continues once destination k is the next to launch
AfterLaunch(k) ==
  IF k < planCfg.n THEN "launch"
  ELSE IF planCfg.optimistic THEN "complete" ELSE "all"

\* pendingReentry.add(anchorId) on a Set kept in insertion order
AddReentry(queue, id) ==
  IF \E k \in 1..Len(queue) : queue[k] = id THEN queue ELSE Append(queue, id)

\* one iteration of the launch loop up to its await: launchBungeeWorker(plan, i)
\* starts and registers the worker, then the concurrency check
LaunchWorker ==
  /\ pc = "launch"
  /\ launchIndex < planCfg.n
  /\ LET i == launchIndex
         active == activeWorkers \cup {i} IN
     /\ wState' = [wState EXCEPT ![CurPlan][i] = "running"]
     /\ workflowContext' = createTelescopeContext(workflowContext, Telescope(i)).base
     /\ launches' = [launches EXCEPT ![CurPlan][i] = @ + 1]
     /\ bungeeWorkers' = [bungeeWorkers EXCEPT ![CurPlan] = @ \cup {i}]
     /\ activeWorkers' = active
     /\ IF Cardinality(active) >= planCfg.concurrency
          THEN /\ pc' = "race"
               /\ raceResult' = RaceAtCall(CurPlan, active)
               /\ UNCHANGED launchIndex
          ELSE /\ pc' = AfterLaunch(i + 1)
               /\ launchIndex' = i + 1
               /\ UNCHANGED raceResult
  /\ lastCall' = NoCall
  /\ UNCHANGED <<parserVars, cfgVars, hostVars, currentStepIndex, isRunning, ctxVars,
                 parSignals, pendingReentry, reentryQueue, nPlans, planStatus,
                 ghostVars, stopYielded>>

\* await Promise.race(activeWorkers) resolved: clean up, next iteration
RaceResolved ==
  /\ pc = "race"
  /\ raceResult = "ok"
  /\ activeWorkers' = CleanUp(activeWorkers, launchIndex)
  /\ launchIndex' = launchIndex + 1
  /\ pc' = AfterLaunch(launchIndex + 1)
  /\ raceResult' = "none"
  /\ lastCall' = NoCall
  /\ UNCHANGED <<parserVars, cfgVars, hostVars, userVars, currentStepIndex, isRunning, ctxVars,
                 parSignals, pendingReentry, reentryQueue, nPlans, planStatus,
                 wState, bungeeWorkers, ghostVars, stopYielded>>

\* executeBungeePlan threw: the catch of handleFlowControlSignal
PlanThrows ==
  /\ planStatus' = [planStatus EXCEPT ![CurPlan] = "threw"]
  /\ bungeeError' = TRUE
  /\ isRunning' = IF planCfg.failWizardOnFailure THEN FALSE ELSE isRunning
  /\ pc' = "afterSlot"
  /\ raceResult' = "none"
  /\ lastCall' = NoCall
  /\ UNCHANGED <<parserVars, cfgVars, hostVars, userVars, currentStepIndex, retryCount, stepError,
                 parSignals, pendingReentry, reentryQueue, nPlans, wState,
                 bungeeWorkers, launchIndex, activeWorkers, ghostVars, stopYielded>>

\* await Promise.race(activeWorkers) rejected: the error leaves executeBungeePlan
RaceRejected ==
  /\ pc = "race"
  /\ raceResult = "fail"
  /\ PlanThrows

\* await Promise.all(activeWorkers) resolved
AllResolved ==
  /\ pc = "all"
  /\ \A j \in activeWorkers : wState[CurPlan][j] = "ok"
  /\ pc' = "complete"
  /\ lastCall' = NoCall
  /\ UNCHANGED <<parserVars, cfgVars, hostVars, userVars, currentStepIndex, isRunning, ctxVars,
                 parSignals, pendingReentry, reentryQueue, planVars, ghostVars,
                 stopYielded>>

\* await Promise.all(activeWorkers) rejected: rethrown unless
\* failWizardOnFailure is false
AllRejected ==
  /\ pc = "all"
  /\ \E j \in activeWorkers : wState[CurPlan][j] \in Failed
  /\ IF planCfg.failWizardOnFailure
       THEN PlanThrows
       ELSE /\ pc' = "complete"
            /\ lastCall' = NoCall
            /\ UNCHANGED <<parserVars, cfgVars, hostVars, userVars, currentStepIndex, isRunning,
                           ctxVars, parSignals, pendingReentry, reentryQueue,
                           planVars, ghostVars, stopYielded>>

\* a variant that never advances the index after a plan
AfterPlanIndex_Stay(plan, index) == index

\* if (signal.plan.returnToAnchor === false) { this.currentStepIndex++ }
AfterPlanIndex(plan, index) ==
  IF plan.returnToAnchor THEN index ELSE index + 1

\* the end of executeBungeePlan and the rest of the BUNGEE_JUMP branch
PlanCompletes ==
  /\ pc = "complete"
  /\ planStatus' = [planStatus EXCEPT ![CurPlan] = "returned"]
  /\ IF planCfg.onComplete # "none"
       THEN HandleSimpleSignal(planCfg.onComplete, FALSE)
       ELSE /\ currentStepIndex' = AfterPlanIndex(planCfg, currentStepIndex)
            /\ pc' = "afterSlot"
            /\ UNCHANGED isRunning
  /\ lastCall' = NoCall
  /\ UNCHANGED <<parserVars, cfgVars, hostVars, userVars, ctxVars, parSignals, pendingReentry,
                 reentryQueue, nPlans, wState, bungeeWorkers, launchIndex,
                 activeWorkers, raceResult, ghostVars, stopYielded>>

\* what a worker's executeWorkerStep does:
\*   "ok"     update returned (a signal made by the worker actions, or nothing)
\*   "threw"  getContext, generateStepData or update threw
\*   "nested" update called actions.bungee.init(), which throws
WorkerOutcomes == {"ok", "threw", "nested"}

\* a variant in which the executor acts on the signal a worker returns
WorkerSignalEffect_Handled(outcome, sig) ==
  /\ isRunning' = IF outcome = "ok" /\ sig = STOP THEN FALSE ELSE isRunning
  /\ UNCHANGED currentStepIndex

\* launchBungeeWorker: "await promise" drops the value executeWorkerStep
\* resolved with, the signal the worker's update returned
WorkerSignalEffect(outcome, sig) == UNCHANGED <<currentStepIndex, isRunning>>

\* the worker's promise settles; the finally block of launchBungeeWorker
WorkerFinishes(p, i, outcome, sig, gen) ==
  /\ wState[p][i] = "running"
  /\ WorkerSignalEffect(outcome, sig)
  /\ wState' = [wState EXCEPT ![p][i] = IF outcome = "ok" THEN "ok" ELSE "failed"]
  /\ userErrorThrown' = (userErrorThrown \/ outcome = "threw")
  /\ workflowContext' =
       IF workerWrites /\ outcome = "ok"
         THEN updateContext(workflowContext, WorkerUpdates(i))
         ELSE workflowContext
  /\ bungeeWorkers' = [bungeeWorkers EXCEPT ![p] = @ \ {i}]
  /\ pendingReentry' =
       IF bungeeWorkers[p] \ {i} = {} /\ planCfg.returnToAnchor
         THEN AddReentry(pendingReentry, AnchorId)
         ELSE pendingReentry
  /\ raceResult' =
       IF pc = "race" /\ p = CurPlan /\ i \in activeWorkers /\ raceResult = "pending"
         THEN (IF outcome = "ok" THEN "ok" ELSE "fail")
         ELSE raceResult
  /\ lastCall' =
       CASE outcome = "ok" ->
              CallWith("worker", WorkerTarget, sig, executeWorkerStepData(gen))
         [] outcome = "nested" ->
              CallWith("worker", WorkerTarget, "NESTED", executeWorkerStepData(gen))
         [] OTHER -> Call("worker", WorkerTarget, "THROW")
  /\ UNCHANGED <<parserVars, cfgVars, hostVars, pc, ctxVars,
                 parSignals, reentryQueue, nPlans, planStatus, launchIndex,
                 activeWorkers, attempts, alwaysThrew, alwaysInvalid, updateCalls,
                 stopYielded, launches>>

WorkerStep ==
  \E p \in Plans, i \in Dests, outcome \in WorkerOutcomes, sig \in WorkerSignals,
     gen \in GeneratedData :
    WorkerFinishes(p, i, outcome, sig, gen)

\* ------------------------------------------------------------------ Next
Next ==
  \/ Run
  \/ FinalizeRun
  \/ ExecuteSequentialStep
  \/ WaitDone
  \/ StartParallelSteps
  \/ \E m \in ParSteps : MemberFinishes(m)
  \/ GroupDone
  \/ ProcessReentries
  \/ RetriggerAnchor
  \/ LaunchWorker
  \/ RaceResolved
  \/ RaceRejected
  \/ AllResolved
  \/ AllRejected
  \/ PlanCompletes
  \/ WorkerStep

Spec == Init /\ [][Next]_vars

\* ------------------------------------------------- parsing a response
\* onChunk of generateStepData: the next n pieces of the text arrive
PushChunk(n) ==
  /\ pFed + n <= Len(pText)
  /\ LET r == push(pState, SubSeq(pText, pFed + 1, pFed + n)) IN
       /\ pState' = r.state
       /\ pRet' = r.ret
  /\ pFed' = pFed + n
  /\ pMidMarker' = (pMidMarker \/ MidMarker(pText, pFed + n))
  /\ UNCHANGED <<pText, pWhole, wizardVars>>

\* parseXmlToJson on the complete text
ParseWhole ==
  /\ ~pWhole.called
  /\ pWhole' = parseXmlToJson(pText)
  /\ UNCHANGED <<pText, pFed, pState, pRet, pMidMarker, wizardVars>>

InitParse == WizardInit({<<"B", "G">>}, {0}, {FALSE}) /\ ParserInit(ValidTexts)

NextParse ==
  \/ \E n \in 1..(2 + 2 + MaxFields * (3 + MaxContent)) : PushChunk(n)
  \/ ParseWhole

SpecParse == InitParse /\ [][NextParse]_vars

\* the model streams a response some of whose number fields are malformed
InitParseErr ==
  WizardInit({<<"B", "G">>}, {0}, {FALSE}) /\ ParserInit(MalformedTexts)

SpecParseErr == InitParseErr /\ [][NextParse]_vars

\* ----------------------------------------- workers that write the context
\* the anchor workflow with a worker step whose update merges its result
InitMerge == InitWith({<<"A", "W">>}, {0}, {TRUE})

NextMerge ==
  \/ Run
  \/ FinalizeRun
  \/ ExecuteSequentialStep
  \/ WaitDone
  \/ ProcessReentries
  \/ RetriggerAnchor
  \/ LaunchWorker
  \/ RaceResolved
  \/ RaceRejected
  \/ AllResolved
  \/ AllRejected
  \/ PlanCompletes
  \/ WorkerStep

SpecMerge == InitMerge /\ [][NextMerge]_vars

\* ------------------------------------- counting the anchor's executions
\* the anchor workflow with the executions of the anchor counted
InitAnchor ==
  WizardInitCounting({<<"A", "W">>}, {0}, {FALSE}, {AnchorId}) /\ ParserInit({<<>>})

SpecAnchor == InitAnchor /\ [][NextMerge]_vars

\* ------------------------------- the class of the worker target step
\* the anchor workflow whose worker target W is a generative step with a
\* schema or a ComputeStep; W is also the step registered after the anchor
InitWorker ==
  /\ WizardInitKinds({<<"A", "W">>}, {0}, {FALSE}, {}, {"generative", "compute"})
  /\ ParserInit({<<>>})

SpecWorker == InitWorker /\ [][NextMerge]_vars

\* ----------------------------------------- errors without a message
\* the workflow of a sequential step and a group, whose user code may throw
\* errors that carry no message
InitRetry ==
  /\ WizardInitErrors({<<"B", "G">>}, 0..MaxRetriesBound, {FALSE}, CountedSteps,
                      {"opaque"}, {TRUE})
  /\ ParserInit({<<>>})

NextRetry ==
  \/ Run
  \/ FinalizeRun
  \/ ExecuteSequentialStep
  \/ WaitDone
  \/ StartParallelSteps
  \/ \E m \in ParSteps : MemberFinishes(m)
  \/ GroupDone
  \/ ProcessReentries

SpecRetry == InitRetry /\ [][NextRetry]_vars

\* ------------------------------ an anchor that returns a jump every time
\* the README's basic example: the anchor's update returns
\* actions.bungee.init()...jump() whenever it is invoked, with default options
InitBasic ==
  /\ WizardInitCounting({<<"A", "W">>}, {0}, {FALSE}, {})
  /\ OptionsSet(planCfg) = 0
  /\ ParserInit({<<>>})

\* the step executed by this transition, if it is the anchor, returns a jump
AnchorJumps ==
  (lastCall'.by \in {"loop", "reentry"} /\ lastCall'.step = AnchorId) =>
    lastCall'.sig = JUMP

ExecuteBasicStep == ExecuteSequentialStep /\ AnchorJumps
RetriggerBasicAnchor == RetriggerAnchor /\ AnchorJumps

\* executeSequentialStep(anchor) when as many plans as are told apart have
\* been launched: the jump the anchor returns starts a plan with a fresh id,
\* which takes the record of the last plan once that plan has returned and
\* its workers are all deregistered (nothing of it is left in the executor)
RelaunchBasicPlan ==
  /\ pc = "loop"
  /\ LoopCondition
  /\ SlotStep(currentStepIndex) = AnchorId
  /\ nPlans = MaxPlans
  /\ planStatus[nPlans] = "returned"
  /\ bungeeWorkers[nPlans] = {}
  /\ InFlight(nPlans) = {}
  /\ lastCall' = StepCall("loop", AnchorId, "update", JUMP)
  /\ StepContextEffect(AnchorId, "update", TRUE)
  /\ planStatus' = [planStatus EXCEPT ![nPlans] = "executing"]
  /\ wState' = [wState EXCEPT ![nPlans] = [i \in Dests |-> "unlaunched"]]
  /\ launches' = [launches EXCEPT ![nPlans] = [i \in Dests |-> 0]]
  /\ launchIndex' = 0
  /\ activeWorkers' = {}
  /\ raceResult' = "none"
  /\ pc' = "launch"
  /\ UNCHANGED <<parserVars, cfgVars, hostVars, workflowContext, currentStepIndex, isRunning,
                 parSignals, pendingReentry, reentryQueue, nPlans, bungeeWorkers,
                 ghostVars, stopYielded>>

NextBasic ==
  \/ Run
  \/ FinalizeRun
  \/ ExecuteBasicStep
  \/ RelaunchBasicPlan
  \/ ProcessReentries
  \/ RetriggerBasicAnchor
  \/ LaunchWorker
  \/ RaceResolved
  \/ RaceRejected
  \/ AllResolved
  \/ AllRejected
  \/ PlanCompletes
  \/ WorkerStep

\* the event loop runs every continuation that is ready
SpecBasic == InitBasic /\ [][NextBasic]_vars /\ WF_vars(NextBasic)

\* ------------------------------------ steps that all return NEXT
\* workflows registered in any order, with every step counted; the steps
\* build no plan
InitNext ==
  /\ WizardInitCounting(OrderedWorkflows, 0..MaxRetriesBound, {FALSE}, StepIds)
  /\ planCfg = DefaultPlan
  /\ ParserInit({<<>>})

\* the update function the transition runs returns Wizard.NEXT
ReturnsNext == lastCall'.by \in {"loop", "group"} => lastCall'.sig = NEXT

ExecuteNextStep == ExecuteSequentialStep /\ ReturnsNext
NextMemberFinishes(m) == MemberFinishes(m) /\ ReturnsNext

NextNext ==
  \/ Run
  \/ FinalizeRun
  \/ ExecuteNextStep
  \/ StartParallelSteps
  \/ \E m \in ParSteps : NextMemberFinishes(m)
  \/ GroupDone
  \/ ProcessReentries

\* the event loop runs every continuation that is ready
SpecNext == InitNext /\ [][NextNext]_vars /\ WF_vars(NextNext)

\* ------------------------------------------- pause, resume and step mode
\* visualizationManager.waitForResume() called by who: the new promise's
\* resolve replaces whatever pauseResolver held
waitForResume(who) == pauseResolver' = who

\* executeStep of a sequential step finds this.isPaused set after
\* generateStepData and waits for the resume
PauseSequentialStep ==
  /\ pc = "loop"
  /\ LoopCondition
  /\ ~IsParallelSlot(currentStepIndex)
  /\ MayAttempt(SlotStep(currentStepIndex))
  /\ isPaused
  /\ waitForResume("main")
  /\ pc' = "pausedStep"
  /\ lastCall' = NoCall
  /\ UNCHANGED <<parserVars, cfgVars, userVars, isPaused, isStepMode, userOverrideData,
                 runPromise, currentStepIndex, isRunning, ctxVars, parSignals,
                 pendingReentry, reentryQueue, planVars, ghostVars, stopYielded>>

\* the rest of that executeStep once the wait is over, then
\* handleFlowControlSignal: the override is used up if there was one
ResumeSequentialStep ==
  /\ pc = "resumedStep"
  /\ SequentialStepSettles(SlotStep(currentStepIndex),
                           PostPauseOutcomes(SlotStep(currentStepIndex)))
  /\ userOverrideData' = FALSE
  /\ UNCHANGED <<parserVars, cfgVars, userVars, isPaused, isStepMode, pauseResolver,
                 runPromise, parSignals, pendingReentry, reentryQueue>>

\* executeStep of a group member finds this.isPaused set and waits
MemberPauses(m) ==
  /\ pc = "par"
  /\ parSignals[m] = "PENDING"
  /\ MayAttempt(m)
  /\ isPaused
  /\ waitForResume(m)
  /\ parSignals' = [parSignals EXCEPT ![m] = "PAUSED"]
  /\ lastCall' = NoCall
  /\ UNCHANGED <<parserVars, cfgVars, userVars, isPaused, isStepMode, userOverrideData,
                 runPromise, currentStepIndex, isRunning, pc, ctxVars,
                 pendingReentry, reentryQueue, planVars, ghostVars, stopYielded>>

\* the rest of a member's executeStep once its wait is over
MemberResumes(m) ==
  /\ pc = "par"
  /\ parSignals[m] = "RESUMED"
  /\ MemberSettles(m, PostPauseOutcomes(m))
  /\ userOverrideData' = FALSE
  /\ UNCHANGED <<parserVars, cfgVars, userVars, isPaused, isStepMode, pauseResolver,
                 runPromise, currentStepIndex, isRunning, pendingReentry,
                 reentryQueue, planVars, stopYielded>>

\* executeStep of retriggerAnchor finds this.isPaused set and waits
PauseReentry ==
  /\ pc = "reentry"
  /\ reentryQueue # <<>>
  /\ MayAttempt(Head(reentryQueue))
  /\ isPaused
  /\ waitForResume("main")
  /\ pc' = "pausedReentry"
  /\ lastCall' = NoCall
  /\ UNCHANGED <<parserVars, cfgVars, userVars, isPaused, isStepMode, userOverrideData,
                 runPromise, currentStepIndex, isRunning, ctxVars, parSignals,
                 pendingReentry, reentryQueue, planVars, ghostVars, stopYielded>>

\* the rest of that executeStep once the wait is over
ResumeReentry ==
  /\ pc = "resumedReentry"
  /\ AnchorSettles(Head(reentryQueue), PostPauseOutcomes(Head(reentryQueue)))
  /\ userOverrideData' = FALSE
  /\ UNCHANGED <<parserVars, cfgVars, userVars, isPaused, isStepMode, pauseResolver,
                 runPromise, currentStepIndex, isRunning, parSignals,
                 pendingReentry, planVars, stopYielded>>

\* executionLoop after a slot in step mode: isPaused = true, then the loop
\* waits for the resume before processReentries
SuspendLoop ==
  /\ pc = "afterSlot"
  /\ SuspendAfterSlot
  /\ isPaused' = TRUE
  /\ waitForResume("main")
  /\ pc' = "suspended"
  /\ lastCall' = NoCall
  /\ UNCHANGED <<parserVars, cfgVars, userVars, isStepMode, userOverrideData,
                 runPromise, currentStepIndex, isRunning, ctxVars, parSignals,
                 pendingReentry, reentryQueue, planVars, ghostVars, stopYielded>>

\* the code positions at which the run loop waits for a resume
WaitingPcs == {"pausedStep", "pausedReentry", "suspended"}
\* where the loop continues once its wait is over
ResumedPc(at) ==
  CASE at = "pausedStep" -> "resumedStep"
    [] at = "pausedReentry" -> "resumedReentry"
    [] at = "suspended" -> "resumed"
    [] OTHER -> at

\* if (this.pauseResolver) { this.pauseResolver(); this.pauseResolver = undefined }
\* resolves the promise of the latest waitForResume, and only that one
ResolvePause ==
  /\ pauseResolver' = "none"
  /\ pc' = IF pauseResolver = "main" THEN ResumedPc(pc) ELSE pc
  /\ parSignals' =
       IF pauseResolver \in ParSteps /\ pc = "par" /\ parSignals[pauseResolver] = "PAUSED"
         THEN [parSignals EXCEPT ![pauseResolver] = "RESUMED"]
         ELSE parSignals

\* the control messages of the visualization client that are sent
Commands == {"pause", "resume", "step_forward", "stop", "form_submit"}
\* the messages that call the stored resolver
ResumeCommands == {"resume", "step_forward", "form_submit"}
\* the run is live: a client sends its messages between start and completion
Live == pc \notin {"idle", "done", "stopped", "crashed"}

\* handleWebSocketMessage: { type: 'control', action: 'pause' }
CmdPause ==
  /\ Live
  /\ isPaused' = TRUE
  /\ lastCall' = Call("ui", "-", "pause")
  /\ UNCHANGED <<parserVars, cfgVars, userVars, isStepMode, pauseResolver,
                 userOverrideData, runPromise, currentStepIndex, isRunning, pc,
                 ctxVars, parSignals, pendingReentry, reentryQueue, planVars,
                 ghostVars, stopYielded>>

\* handleWebSocketMessage: { type: 'control', action: 'resume' }
CmdResume ==
  /\ Live
  /\ isPaused' = FALSE
  /\ isStepMode' = FALSE
  /\ ResolvePause
  /\ lastCall' = Call("ui", "-", "resume")
  /\ UNCHANGED <<parserVars, cfgVars, userVars, userOverrideData, runPromise,
                 currentStepIndex, isRunning, ctxVars, pendingReentry,
                 reentryQueue, planVars, ghostVars, stopYielded>>

\* handleWebSocketMessage: { type: 'control', action: 'step_forward' },
\* which does nothing unless the wizard is paused
CmdStepForward ==
  /\ Live
  /\ isPaused
  /\ isStepMode' = TRUE
  /\ ResolvePause
  /\ lastCall' = Call("ui", "-", "step_forward")
  /\ UNCHANGED <<parserVars, cfgVars, userVars, isPaused, userOverrideData, runPromise,
                 currentStepIndex, isRunning, ctxVars, pendingReentry,
                 reentryQueue, planVars, ghostVars, stopYielded>>

\* handleWebSocketMessage: { type: 'control', action: 'stop' }: the flags
\* are reset, the stored resolver is not called
CmdStop ==
  /\ Live
  /\ isRunning' = FALSE
  /\ isPaused' = FALSE
  /\ isStepMode' = FALSE
  /\ lastCall' = Call("ui", "-", "stop")
  /\ UNCHANGED <<parserVars, cfgVars, userVars, pauseResolver, userOverrideData,
                 runPromise, currentStepIndex, pc, ctxVars, parSignals,
                 pendingReentry, reentryQueue, planVars, ghostVars, stopYielded>>

\* handleWebSocketMessage: { type: 'form_submit', data }
CmdFormSubmit ==
  /\ Live
  /\ userOverrideData' = TRUE
  /\ ResolvePause
  /\ lastCall' = Call("ui", "-", "form_submit")
  /\ UNCHANGED <<parserVars, cfgVars, userVars, isPaused, isStepMode, runPromise,
                 currentStepIndex, isRunning, ctxVars, pendingReentry,
                 reentryQueue, planVars, ghostVars, stopYielded>>

\* the plans of the debugged workflow have one destination
DebugPlans == {cfg \in PlanConfigs : cfg.n = 1}

\* a run watched by a visualization client, which can pause it
InitDebug ==
  /\ WizardInitCounting(Workflows, {0}, {FALSE}, {})
  /\ HasAnchor(steps) => planCfg \in DebugPlans
  /\ ParserInit({<<>>})

NextDebug ==
  \/ Run
  \/ FinalizeRun
  \/ ExecuteSequentialStep
  \/ WaitDone
  \/ StartParallelSteps
  \/ \E m \in ParSteps : MemberFinishes(m)
  \/ GroupDone
  \/ ProcessReentries
  \/ RetriggerAnchor
  \/ LaunchWorker
  \/ RaceResolved
  \/ RaceRejected
  \/ AllResolved
  \/ AllRejected
  \/ PlanCompletes
  \/ WorkerStep
  \/ PauseSequentialStep
  \/ ResumeSequentialStep
  \/ \E m \in ParSteps : MemberPauses(m)
  \/ \E m \in ParSteps : MemberResumes(m)
  \/ PauseReentry
  \/ ResumeReentry
  \/ SuspendLoop
  \/ CmdPause
  \/ CmdResume
  \/ CmdStepForward
  \/ CmdStop
  \/ CmdFormSubmit

SpecDebug == InitDebug /\ [][NextDebug]_vars

TypeOK ==
  /\ currentStepIndex \in 0..NumSlots
  /\ isRunning \in BOOLEAN
  /\ pc \in {"idle", "loop", "wait", "par", "afterSlot", "reentry", "launch",
             "race", "all", "complete", "done", "stopped", "crashed",
             "pausedStep", "resumedStep", "pausedReentry", "resumedReentry",
             "suspended", "resumed"}
  /\ isPaused \in BOOLEAN
  /\ isStepMode \in BOOLEAN
  /\ pauseResolver \in {"none", "main"} \cup ParSteps
  /\ raceResult \in {"none", "pending", "ok", "fail"}
  /\ nPlans \in 0..MaxPlans


\* ================================================================ claims
PlanDests == 0..(planCfg.n - 1)
Queued(queue, id) == \E k \in 1..Len(queue) : queue[k] = id
LoopCallers == {"loop", "group", "reentry"}
\* the last transition ran a step's update function to its return
UpdateRan(call) ==
  call.by \in LoopCallers /\ call.sig \notin {"THROW", "INVALID", "REPAIR_ERROR"}

\* C1: for a plan with concurrency C < N destinations, the number of workers
\* launched and not yet finished never exceeds C.
C1_ConcurrencyBound ==
  \A p \in Plans :
    planCfg.concurrency < planCfg.n =>
      Cardinality(InFlight(p)) <= planCfg.concurrency

\* C2: when executeBungeePlan returns for a plan that is not optimistic and
\* none of whose workers has failed, no worker of the plan is still in flight.
C2_AllFinishedOnReturn ==
  \A p \in Plans :
    ( /\ planStatus[p] = "returned"
      /\ ~planCfg.optimistic
      /\ \A i \in Dests : wState[p][i] \notin Failed )
    => InFlight(p) = {}

\* C3: a sequential step every execution of which throws is attempted
\* maxRetries + 1 times and no more; until then the run goes on retrying it,
\* and with that attempt the fatal STOP is returned and the run stops.
C3_RetryBudget ==
  \A s \in CountedSteps :
    (alwaysThrew[s] /\ attempts[s] >= 1) =>
      /\ attempts[s] <= maxRetries + 1
      /\ attempts[s] < maxRetries + 1 =>
           (isRunning /\ pc \notin {"crashed", "done", "stopped"})
      /\ attempts[s] = maxRetries + 1 => (~isRunning /\ stopYielded)

\* the priority the group's signal is said to follow: any STOP, else the
\* first GOTO in member order, else RETRY if any, else NEXT
PrioritySignal(sigs) ==
  LET idxs == 1..Len(sigs)
      gotos == {k \in idxs : IsGoto(sigs[k])} IN
  IF \E k \in idxs : sigs[k] = STOP THEN STOP
  ELSE IF gotos # {} THEN sigs[Min(gotos)]
  ELSE IF \E k \in idxs : sigs[k] = RETRY THEN RETRY
  ELSE NEXT

\* C4: once all members of a parallel group have finished, the group's
\* signal is STOP if any member returned STOP, else the first GOTO in member
\* order, else RETRY if any member returned RETRY, else NEXT.
C4_GroupPriority ==
  (pc = "par" /\ GroupFinished) =>
    ParallelSignal(GroupSignals) = PrioritySignal(GroupSignals)

\* C5: once a sequential step or a parallel group has yielded STOP, running
\* is false and no step's update function is run any more, neither by the
\* main loop nor by the draining of queued anchor reentries.
C5_NoUpdateAfterStop ==
  /\ [](stopYielded => ~isRunning)
  /\ [][stopYielded => ~UpdateRan(lastCall')]_vars

\* C6: the signal the anchor's update returns when a queued reentry is
\* drained is interpreted as for a freshly reached step: NEXT advances the
\* index, GOTO jumps to the target, STOP halts the run.
C6_ReentrySignalInterpreted ==
  [][ lastCall'.by = "reentry" =>
        /\ lastCall'.sig = NEXT => currentStepIndex' = currentStepIndex + 1
        /\ lastCall'.sig = "GOTO W" => currentStepIndex' = findStepIndex("W")
        /\ lastCall'.sig = STOP => ~isRunning' ]_vars

\* C7: a worker's completion queues the anchor for reentry only when every
\* destination of its plan has been launched and every worker of the plan
\* has finished.
C7_ReentryAfterAllWorkers ==
  [][ \A p \in Plans :
        ( /\ \E i \in Dests : wState[p][i] = "running" /\ wState'[p][i] \in Settled
          /\ ~Queued(pendingReentry, AnchorId)
          /\ Queued(pendingReentry', AnchorId) )
        => \A i \in PlanDests : wState'[p][i] \in Settled ]_vars

\* C8: once a worker of a plan whose failWizardOnFailure is not false has
\* thrown, no step is executed any more by the run loop.
C8_WorkerFailureStopsRun ==
  [][ ( /\ planCfg.failWizardOnFailure
        /\ \E p \in Plans, i \in Dests : wState[p][i] \in Failed )
      => lastCall'.by \notin LoopCallers ]_vars

\* C9: with failWizardOnFailure explicitly false, once the plan is over
\* (whether or not a worker threw) every destination has been launched, and
\* the executing plan never changes the running flag.
C9_ContinueOnFailure ==
  /\ [](~planCfg.failWizardOnFailure =>
          \A p \in Plans :
            planStatus[p] \in {"returned", "threw"} =>
              \A i \in PlanDests : wState[p][i] # "unlaunched")
  /\ [][ (~planCfg.failWizardOnFailure /\ pc \in {"race", "all"})
         => isRunning' = isRunning ]_vars

\* C10 as stated: as long as no worker's own code throws, nothing a worker
\* does (signals returned, flow-control actions called, an attempt to launch
\* a nested plan) changes the step index or the running flag while the plan
\* executes.
C10_WorkerActionsInert ==
  [][ (pc \in {"race", "all"} /\ ~userErrorThrown') =>
        (currentStepIndex' = currentStepIndex /\ isRunning' = isRunning) ]_vars

\* C10 amended: the transition in which a worker's update returns changes
\* neither the step index nor the running flag, and as long as no worker has
\* failed (by an error of its own or by the error bungee.init() throws in a
\* worker) the executing plan changes neither.
C10_WorkerSignalsInert ==
  /\ [][ lastCall'.by = "worker" =>
           (currentStepIndex' = currentStepIndex /\ isRunning' = isRunning) ]_vars
  /\ [][ ( /\ pc \in {"race", "all"}
           /\ \A p \in Plans, i \in Dests : wState'[p][i] \notin Failed )
         => (currentStepIndex' = currentStepIndex /\ isRunning' = isRunning) ]_vars

\* a worker's update has returned STOP while the plan awaits its workers,
\* and the run is still running at the anchor
C10_Witness ==
  /\ pc \in {"race", "all"}
  /\ lastCall = Call("worker", WorkerTarget, STOP)
  /\ isRunning
  /\ currentStepIndex = findStepIndex(AnchorId)

\* the workers that have returned from their update, over all plans
Writers == {i \in Dests : \E p \in Plans : wState[p][i] = "ok"}

\* C11: when workers write different values to one key, the shared context
\* holds exactly one of the values written by the workers that have finished,
\* and neither the key set before the run nor any worker's own result key is
\* lost.
C11_LastWriteWins ==
  workerWrites =>
    /\ OtherKey \in DOMAIN workflowContext /\ workflowContext[OtherKey] = 1
    /\ Writers # {} =>
         /\ SharedKey \in DOMAIN workflowContext
         /\ workflowContext[SharedKey] \in {i + 1 : i \in Writers}
    /\ \A i \in Writers : ResultKey(i) \in DOMAIN workflowContext

\* workers 0 and 1 of a plan have both written; worker 0, launched first,
\* wrote last, so the two were in flight together
C11_Witness ==
  /\ workerWrites
  /\ \E p \in Plans : wState[p][0] = "ok" /\ wState[p][1] = "ok"
  /\ nPlans = 1
  /\ SharedKey \in DOMAIN workflowContext
  /\ workflowContext[SharedKey] = 1

\* C12: no destination is launched twice; a plan that has returned has
\* launched each of its N destinations exactly once; and once all N workers
\* have finished the shared context holds result_0 .. result_(N-1).
C12_AllResultsMerged ==
  workerWrites =>
    \A p \in Plans :
      /\ \A i \in Dests : launches[p][i] <= 1
      /\ planStatus[p] = "returned" =>
           \A i \in Dests : launches[p][i] = (IF i \in PlanDests THEN 1 ELSE 0)
      /\ (\A i \in PlanDests : wState[p][i] = "ok") =>
           \A i \in PlanDests :
             /\ ResultKey(i) \in DOMAIN workflowContext
             /\ workflowContext[ResultKey(i)] = 1

\* a plan with concurrency 2 < N = 3 whose workers have all finished, the
\* first launched finishing last
C12_Witness ==
  /\ workerWrites
  /\ planCfg.n = 3 /\ planCfg.concurrency = 2
  /\ planStatus[1] = "returned"
  /\ \A i \in PlanDests : wState[1][i] = "ok"
  /\ workflowContext[SharedKey] = 1

\* the content of the field whose open marker starts at position k
FieldContent(text, k) ==
  LET later == {j \in TagMatches(text) : j > k}
      stop == IF later # {} THEN CHOOSE j \in later : \A i \in later : j <= i
              ELSE IndexOfPair(text, "RC1", "RC2")
  IN SubSeq(text, k + 3, stop - 1)
\* the text of a typed value, blanks around it aside
ValueText(v) == Trim(SliceFrom(v, 2))
\* the entry holds the typed value of the field at position k
HoldsField(entry, text, k) ==
  \E j \in 1..Len(entry.vals) :
    /\ entry.vals[j][1] = TypeOf(text[k + 1])
    /\ ValueText(entry.vals[j]) = Trim(FieldContent(text, k))

ArrayOfBoth(result, text, k1, k2) ==
  LET e == result[NameOf(text[k1])] IN
  /\ e.arr
  /\ Len(e.vals) = 2
  /\ ValueText(e.vals[1]) = Trim(FieldContent(text, k1))
  /\ ValueText(e.vals[2]) = Trim(FieldContent(text, k2))

\* C14: for a response with two fields of the same name and different
\* values, the final result of the streaming parser and the result of the
\* non-streaming parser both hold under that name the array of the two
\* values in order of appearance.
C14_RepeatedFieldCollapse ==
  \A k1, k2 \in TagMatches(pText) :
    ( /\ k1 < k2
      /\ pText[k1] = pText[k2]
      /\ Trim(FieldContent(pText, k1)) # Trim(FieldContent(pText, k2)) )
    => /\ pRet.kind = "done" => ArrayOfBoth(pRet.result, pText, k1, k2)
       /\ pWhole.called => (pWhole.ok /\ ArrayOfBoth(pWhole.result, pText, k1, k2))

\* C15: done=true is returned only once the whole text, up to the end of the
\* close marker, has been pushed, and the result returned with it holds every
\* field of the response with its typed value.
C15_DoneIsFinal ==
  pRet.kind = "done" =>
    /\ pFed = Len(pText)
    /\ \A k \in TagMatches(pText) :
         HoldsField(pRet.result[NameOf(pText[k])], pText, k)

\* C16: the result the streaming parser returns with done=true equals the
\* result parseXmlToJson returns for the same text.
C16_StreamingEqualsWhole ==
  (pRet.kind = "done" /\ pWhole.called) =>
    (pWhole.ok /\ pRet.result = pWhole.result)

\* C17: an error thrown while a step executes never leaves the run loop: it
\* is recorded with <stepId>_retryCount incremented by one and the step is
\* retried, unless the retry budget is exceeded.
C17_AllErrorsCaught ==
  [][ (lastCall'.by \in LoopCallers /\ lastCall'.sig = "THROW") =>
        LET s == lastCall'.step IN
        /\ pc' # "crashed"
        /\ \/ stepError'[s] /\ retryCount'[s] = retryCount[s] + 1
           \/ RetryBudgetExceeded(retryCount[s] + 1) ]_vars

UnknownGoto(sig) == IsGoto(sig) /\ findStepIndex(GotoTarget(sig)) = 0 - 1

\* C19: when a step returns a GOTO to an id that is not registered, the run
\* ends at once with the unknown-step error: no retry count is incremented
\* and the loop executes no step afterwards.
C19_UnknownGotoEndsRun ==
  /\ [][ (lastCall'.by \in {"loop", "reentry"} /\ UnknownGoto(lastCall'.sig)) =>
           /\ pc' = "crashed"
           /\ \A s \in StepIds : retryCount'[s] <= retryCount[s] ]_vars
  /\ [][ pc = "crashed" => lastCall'.by \notin LoopCallers ]_vars

\* C20: the anchor of a plan is queued for reentry only when the plan has no
\* onComplete callback and returnToAnchor is not false; with an onComplete
\* callback the anchor is never queued.
C20_ReentryOnlyWithoutOnComplete ==
  (Queued(pendingReentry, AnchorId) \/ Queued(reentryQueue, AnchorId)) =>
    (planCfg.onComplete = "none" /\ planCfg.returnToAnchor)

\* the plans of this run are built with returnToAnchor false, no onComplete
NoReturnPlan == ~planCfg.returnToAnchor /\ planCfg.onComplete = "none"

\* C21: for a plan with returnToAnchor false and no onComplete, completing the
\* plan moves the index exactly one past the launching step, and the anchor
\* is never queued for reentry nor re-executed by a reentry.
C21_NoReturnAdvances ==
  /\ [][ (NoReturnPlan /\ \E p \in Plans : /\ planStatus[p] = "executing"
                                           /\ planStatus'[p] = "returned") =>
           (currentStepIndex = findStepIndex(AnchorId)
              /\ currentStepIndex' = currentStepIndex + 1) ]_vars
  /\ [](NoReturnPlan =>
          /\ ~Queued(pendingReentry, AnchorId)
          /\ ~Queued(reentryQueue, AnchorId)
          /\ lastCall.by # "reentry")

\* such a plan has completed with a worker finished and the index past the anchor
C21_Witness ==
  /\ NoReturnPlan
  /\ nPlans = 1
  /\ planStatus[1] = "returned"
  /\ \E i \in PlanDests : wState[1][i] = "ok"
  /\ currentStepIndex = findStepIndex(AnchorId) + 1
  /\ pc = "afterSlot"

\* the run has launched one plan with default options, every worker of it
\* has succeeded and is deregistered, and no step has failed
OneDefaultPlanDone ==
  /\ planCfg \in {cfg \in PlanConfigs : OptionsSet(cfg) = 0}
  /\ nPlans = 1
  /\ planStatus[1] = "returned"
  /\ \A i \in PlanDests : wState[1][i] = "ok"
  /\ \A s \in StepIds : ~stepError[s]

\* C22: for one plan with default options whose workers all succeed, the
\* anchor's update is invoked exactly twice: never a third time, and twice
\* when the run is finished.
C22_AnchorInvokedTwice ==
  OneDefaultPlanDone =>
    /\ updateCalls[AnchorId] <= 2
    /\ pc = "done" => updateCalls[AnchorId] = 2

\* a plan has returned with every one of its workers finished successfully
PlanWorkersFinished ==
  /\ nPlans >= 1
  /\ planStatus[nPlans] = "returned"
  /\ bungeeWorkers[nPlans] = {}
  /\ \A i \in PlanDests : wState[nPlans][i] = "ok"

\* the main loop has executed the step registered after the anchor
FollowingStepExecuted == lastCall.by = "loop" /\ lastCall.step = WorkerTarget

\* C23: with an anchor that returns a default jump every time, once the
\* plan's workers have finished the loop eventually executes the step
\* registered after the anchor, unless a failure stops the run before.
C23_FollowingStepRuns ==
  PlanWorkersFinished ~> (FollowingStepExecuted \/ ~isRunning)

\* with such an anchor the index never leaves the anchor's slot
C23_IndexStaysOnAnchor == currentStepIndex = findStepIndex(AnchorId)

\* the keys of the shared context that hold the error of a failed worker:
\* the only one written is bungee_error, by the catch of handleFlowControlSignal
WorkerErrorKeys == IF bungeeError THEN {"bungee_error"} ELSE {}

\* the workers of plan p that have thrown
FailedWorkers(p) == {i \in Dests : wState[p][i] \in Failed}

\* C24: once a plan is over and its workers have finished, the shared context
\* holds one error entry for each of its workers that has thrown, so two
\* failing workers leave two distinct entries.
C24_ErrorPerWorker ==
  \A p \in Plans :
    (planStatus[p] \in {"returned", "threw"} /\ InFlight(p) = {}) =>
      Cardinality(WorkerErrorKeys) >= Cardinality(FailedWorkers(p))

\* the update function of the worker target has been invoked by the caller
TargetUpdateInvoked(by) ==
  /\ lastCall.step = WorkerTarget
  /\ lastCall.by = by
  /\ lastCall.sig \notin {"THROW", "INVALID", "REPAIR_ERROR"}

\* C25: a ComputeStep's update is called with a null result, without a model
\* call, when the step runs as a worker target exactly as when the loop
\* executes it.
C25_ComputeWorkerGetsNull ==
  targetKind = "compute" =>
    /\ TargetUpdateInvoked("loop") => lastCall.data = "null"
    /\ TargetUpdateInvoked("worker") => lastCall.data = "null"

\* C26: the update of a step with a schema is invoked only with a result
\* that passed validation, never with the validation-failure sentinel,
\* whether the loop or a worker runs the step.
C26_UpdateGetsValidData ==
  targetKind = "generative" =>
    \A by \in {"loop", "worker"} :
      TargetUpdateInvoked(by) => lastCall.data = "generated"

\* C27: when the run halts because a sequential step has exceeded its retry
\* budget, the context holds <stepId>_error for that step, recorded for the
\* failure that halted the run, whatever maxRetries is.
C27_ErrorKeptOnHalt ==
  [][ (lastCall'.by = "loop" /\ lastCall'.sig = "THROW"
         /\ isRunning /\ ~isRunning') =>
        LET s == lastCall'.step IN
        /\ stepError'[s]
        /\ retryCount'[s] = retryCount[s] + 1 ]_vars

\* C28: when a step's update has returned, neither <stepId>_error nor
\* <stepId>_retryCount is left in the context, so that a later failure of
\* the step is counted from 1 again.
C28_SuccessClearsError ==
  [][ (lastCall'.by \in {"loop", "group"} /\ UpdateRan(lastCall')) =>
        LET s == lastCall'.step IN
        ~stepError'[s] /\ retryCount'[s] = 0 ]_vars

\* with errors that carry a message the step's keys are cleared
C28_ClearedWhenMessage ==
  [][ (lastCall'.by \in {"loop", "group"} /\ UpdateRan(lastCall')
         /\ stepError[lastCall'.step]) =>
        LET s == lastCall'.step IN
        ~stepError'[s] /\ retryCount'[s] = 0 ]_vars

\* the field whose open marker starts at position k of the text is malformed
BadFieldAt(text, k) ==
  TypeOf(text[k + 1]) = "number" /\ ~IsNumeral(Trim(FieldContent(text, k)))

\* C29: a parse error inside a field is never raised to the caller, neither
\* by push nor by parseXmlToJson: every call returns.
C29_ParseErrorsNotRaised ==
  /\ pRet.kind \in {"none", "null", "partial", "done"}
  /\ pWhole.called => pWhole.ok

\* C30: with a malformed field in the response, once the whole text has been
\* pushed the parser has returned done=true and the result holds every
\* well-formed field that follows a malformed one.
C30_RecoversAfterError ==
  (pFed = Len(pText) /\ pFed > 0) =>
    /\ pRet.kind = "done"
    /\ \A k1, k2 \in TagMatches(pText) :
         (k1 < k2 /\ BadFieldAt(pText, k1) /\ ~BadFieldAt(pText, k2)) =>
           HoldsField(pRet.result[NameOf(pText[k2])], pText, k2)

\* the transition is a message of the client that calls the stored resolver
ResumeReceived == lastCall'.by = "ui" /\ lastCall'.sig \in ResumeCommands

\* C31: in step mode the loop, once a slot has completed, does nothing but
\* suspend; and while it is suspended it stays so, and no slot and no anchor
\* reentry is executed, until a message of the client resumes it.
C31_StepModeSuspends ==
  /\ [][ (pc = "afterSlot" /\ isStepMode /\ pc' # "afterSlot") =>
           (pc' = "suspended" /\ isPaused' /\ lastCall'.by \notin LoopCallers) ]_vars
  /\ [][ (pc = "suspended" /\ ~ResumeReceived) =>
           (pc' = "suspended" /\ lastCall'.by \notin LoopCallers) ]_vars
  /\ [][ (pc = "suspended" /\ ResumeReceived) => pc' = "resumed" ]_vars

\* the loop is suspended in step mode after the anchor's slot, with the
\* anchor queued for reentry and a slot still to execute
C31_Witness ==
  /\ pc = "suspended"
  /\ isStepMode
  /\ isRunning
  /\ Queued(pendingReentry, AnchorId)
  /\ currentStepIndex < NumSlots

\* C36: when members of a group wait for a resume at the same time, one
\* message of the client that resumes lets every one of them continue: none
\* is left waiting.
C36_ResumeReachesAllMembers ==
  [][ ResumeReceived => \A m \in ParSteps : parSignals'[m] # "PAUSED" ]_vars

\* the message that stops the run has arrived while the loop was waiting
StopReceived == lastCall'.by = "ui" /\ lastCall'.sig = "stop"

\* C37: a stop message received while the run loop waits for a resume,
\* inside a step or after a slot in step mode, ends the wait: the loop goes
\* on to its end without a resume.
C37_StopEndsWait ==
  [][ (pc \in WaitingPcs /\ StopReceived) => pc' \notin WaitingPcs ]_vars

\* a loop that waits leaves its wait only by a message that resumes
C37_OnlyResumeEndsWait ==
  [][ (pc \in WaitingPcs /\ pc' # pc) => ResumeReceived ]_vars

\* the keys the workers that have returned passed to actions.updateContext
PassedKeys == UNION {DOMAIN WorkerUpdates(i) : i \in Writers}
NoWorkerFailed == \A p \in Plans, i \in Dests : wState[p][i] \notin Failed

SlotMembers(k) == IF steps[k + 1] = "G" THEN ParSteps ELSE {steps[k + 1]}

\* C33: run() starts at index 0 with the run running; when every step
\* returns NEXT, the slots before the current index have been executed
\* exactly once each, those after it not at all, the current one at most once
\* (each member of a group in progress); the loop ends with running false and
\* every slot executed, and it does end.
C33_EachSlotOnceInOrder ==
  /\ [][ (pc = "idle" /\ pc' # "idle") => (currentStepIndex' = 0 /\ isRunning') ]_vars
  /\ [](\A k \in 0..(NumSlots - 1) : \A s \in SlotMembers(k) :
          /\ k < currentStepIndex => attempts[s] = 1
          /\ k > currentStepIndex => attempts[s] = 0
          /\ k = currentStepIndex =>
               (IF pc = "par" THEN attempts[s] <= 1 ELSE attempts[s] = 0))
  /\ [](pc = "done" => (~isRunning /\ currentStepIndex = NumSlots))
  /\ <>(pc = "done")

\* a workflow of three slots, the group in the middle, has run to its end
C33_Witness ==
  /\ pc = "done"
  /\ NumSlots = 3
  /\ steps[2] = "G"
  /\ \A k \in 0..2 : \A s \in SlotMembers(k) : attempts[s] = 1

\* the run loop has terminated: all slots done, a STOP, or a fatal error
LoopTerminated == pc \in {"done", "stopped", "crashed"}

\* C34: the promise run() returned is settled only once the run loop has
\* terminated, and it is rejected when the loop ended by a fatal error.
C34_RunSettlesAfterLoop ==
  /\ runPromise # "none" => LoopTerminated
  /\ pc = "crashed" => runPromise = "rejected"

\* C35: a step every execution of which has failed validation after repair
\* is retried however often that has happened, more often than maxRetries + 1
\* included: no retry count and no error is recorded for it, the run is
\* still running and the loop is at the step's slot; and a validation
\* failure never changes a retry count nor the running flag.
C35_ValidationRetryUnbounded ==
  /\ [](\A s \in DOMAIN attempts :
          (alwaysInvalid[s] /\ attempts[s] >= 1) =>
            /\ retryCount[s] = 0
            /\ ~stepError[s]
            /\ isRunning /\ ~stopYielded
            /\ pc \in {"afterSlot", "loop"}
            /\ SlotStep(currentStepIndex) = s)
  /\ [][ (lastCall'.by \in LoopCallers /\ lastCall'.sig \in {"INVALID", "REPAIR_ERROR"})
           => (retryCount' = retryCount /\ isRunning' = isRunning) ]_vars

\* with maxRetries 0 the step has failed validation more than twice and the
\* loop is about to execute it again
C35_Witness ==
  /\ maxRetries = 0
  /\ \E s \in DOMAIN attempts : alwaysInvalid[s] /\ attempts[s] >= 3
  /\ pc = "loop"
  /\ LoopCondition

\* the signal is none of NEXT, STOP, RETRY, WAIT, a GOTO or a jump
NoSignal(sig) == sig = OTHERSIG

\* C38 as stated: when the update of a step, run by executeSequentialStep or
\* as a member of a group, returns a value that is no signal, the handling
\* of that slot leaves the index unchanged and the run running.
C38_NoSignalRepeatsSlot ==
  /\ [][ (lastCall'.by = "loop" /\ NoSignal(lastCall'.sig)) =>
           (currentStepIndex' = currentStepIndex /\ isRunning') ]_vars
  /\ [][ (pc = "par" /\ GroupFinished /\ \E m \in ParSteps : NoSignal(parSignals[m])) =>
           (currentStepIndex' = currentStepIndex /\ isRunning') ]_vars

\* the members' signals with every value that is no signal replaced by NEXT
AsNext(sigs) == [k \in 1..Len(sigs) |-> IF NoSignal(sigs[k]) THEN NEXT ELSE sigs[k]]

\* C38 amended: when the update of a step run by executeSequentialStep
\* returns a value that is no signal, the index is unchanged, the run is
\* running and the loop goes on, at the same slot; returned by a member of a
\* group such a value counts as NEXT in the group's signal.
C38_NoSignalRepeatsSequential ==
  /\ [][ (lastCall'.by = "loop" /\ NoSignal(lastCall'.sig)) =>
           /\ currentStepIndex' = currentStepIndex
           /\ isRunning'
           /\ pc' = "afterSlot"
           /\ SlotStep(currentStepIndex') = lastCall'.step ]_vars
  /\ []((pc = "par" /\ GroupFinished) =>
          ParallelSignal(GroupSignals) = ParallelSignal(AsNext(GroupSignals)))

\* a sequential step's update has returned no signal and the loop is back
\* at the step's slot
C38_Witness ==
  /\ lastCall.by = "loop"
  /\ NoSignal(lastCall.sig)
  /\ pc = "afterSlot"
  /\ isRunning
  /\ SlotStep(currentStepIndex) = lastCall.step

\* the members' signals with every jump and every wait replaced by NEXT
JumpWaitAsNext(sigs) ==
  [k \in 1..Len(sigs) |-> IF sigs[k] \in {JUMP, WAIT} THEN NEXT ELSE sigs[k]]

\* a member of the group has returned a jump or a wait
MemberJumpedOrWaited == \E m \in ParSteps : parSignals[m] \in {JUMP, WAIT}

\* C39: a jump or a wait returned by a member of a group is not acted upon:
\* the group's signal is the one computed with that member's signal
\* replaced by NEXT, and while the group is handled no plan is started, no
\* plan changes its status, and the loop neither launches workers nor waits.
C39_MemberJumpWaitIgnored ==
  /\ []((pc = "par" /\ GroupFinished) =>
          ParallelSignal(GroupSignals) = ParallelSignal(JumpWaitAsNext(GroupSignals)))
  /\ [][ (pc = "par" /\ MemberJumpedOrWaited) =>
           /\ nPlans' = nPlans
           /\ planStatus' = planStatus
           /\ pc' \notin {"launch", "wait"} ]_vars

\* both members have settled, one with a jump and the other with a wait
C39_Witness ==
  /\ pc = "par"
  /\ GroupFinished
  /\ parSignals["P"] = JUMP
  /\ parSignals["Q"] = WAIT

\* C40: for every step the count stored under <stepId>_retryCount is, when
\* present (not 0), at least 1 and at most maxRetries; it changes only by
\* being deleted or by being written as the previous count plus one, no
\* update function writing the key itself.
C40_RetryCountInBudget ==
  /\ [](\A s \in StepIds :
          retryCount[s] # 0 => (1 <= retryCount[s] /\ retryCount[s] <= maxRetries))
  /\ [][ \A s \in StepIds :
           retryCount'[s] # retryCount[s] =>
             \/ retryCount'[s] = 0
             \/ /\ retryCount'[s] = retryCount[s] + 1
                /\ retryCount'[s] <= maxRetries ]_vars

\* a step has used its whole budget, maxRetries being at least 1, and one
\* more failure has stopped the run without writing the count
C40_Witness ==
  /\ maxRetries >= 1
  /\ lastCall.by = "loop"
  /\ lastCall.sig = "THROW"
  /\ retryCount[lastCall.step] = maxRetries
  /\ ~isRunning

====
